---- MODULE Spec2Model ----
(***************************************************************************)
(* Price tracker (monitor.py): the identity map URL <-> ID kept in the     *)
(* url_ids table, the tracker table of daily observations, the history     *)
(* summary and the digest e-mails of one run of main().                    *)
(*                                                                         *)
(* A run of main() is a process that walks through program points          *)
(*   assign -> scrape -> (next URL) ... -> write_ids -> write_db           *)
(*          -> history -> email -> done                                    *)
(* Each step holds at most one database statement/transaction or one       *)
(* network call, so that overlapping runs interleave like the processes do.*)
(*                                                                         *)
(*   Spec         runs of main() that follow one another                   *)
(*   SpecOverlap  two runs of main() on one database, up to write_url_IDs  *)
(*   SpecCalls    get_url_IDs, assign_ID_to_new, write_url_IDs called      *)
(*                directly, in any order                                   *)
(*                                                                         *)
(* The image URLs of the scraper only fill the image block of a summary    *)
(* and are left out, as are the texts of the HTML templates.               *)
(***************************************************************************)
EXTENDS Integers, Sequences, FiniteSets, TLC

\* ---------------------------------------------------------------- bounds
MaxRuns == 2      \* runs of main() started in one behaviour

\* ---------------------------------------------------------------- inputs
\* Python's None / a present value (Optional[T]).
None == <<>>
Some(x) == <<x>>

\* The processes that may run main(): "p" alone in the sequential
\* specification, "p" and "q" overlapping in SpecOverlap.
Runs == {"p", "q"}

URLs == {"A", "B", "C"}

\* The subscriber configuration files that exist on disk. Two of them name
\* the same person, two of them list the same URL; "sites" is flattened in
\* the listing order of the file.
ConfigFiles ==
    { [person |-> "ann", contact |-> "ann@x",  site |-> "kookai", urls |-> <<"A", "B">>],
      [person |-> "bob", contact |-> "bob@x",  site |-> "kookai", urls |-> <<"B">>],
      [person |-> "ann", contact |-> "ann2@x", site |-> "kookai", urls |-> <<"C">>] }

\* The --json-files lists: any files on disk, each at most once, in any order.
FileLists ==
    { files \in UNION { [1..n -> ConfigFiles] : n \in 0..Cardinality(ConfigFiles) } :
        \A a, b \in DOMAIN files : a # b => files[a] # files[b] }

\* What the scraper hands back for a URL: the raw price strings (currency
\* mark and number), or an exception (Page Not Found, an unbound local on an
\* unexpected page, a network error).
RawResults ==
    { [price |-> Some([cur |-> "$", num |-> 7]), compare_price |-> None],
      [price |-> Some([cur |-> "AUD", num |-> 5]),
       compare_price |-> Some([cur |-> "AUD", num |-> 7])] }
ScrapeOutcomes ==
    { [raised |-> TRUE, price |-> None, compare_price |-> None] } \cup
    { [raised |-> FALSE, price |-> x.price, compare_price |-> x.compare_price] :
        x \in RawResults }

\* datetime.today(): the calendar day and the time of day.
datetime(day) == [day |-> day, time |-> "hh:mm:ss"]

VARIABLES
    url_ids,          \* table url_ids: set of rows [url_ID, url]
    tracker,          \* table tracker: set of rows [url_ID, price, compare_price, date]
    today,            \* the day of the last reading of the clock, 0 before the first
    runs_started,     \* number of runs started so far
    pc,               \* program point of each run
    json_files,       \* argument json_files of each run
    no_email,         \* argument no_email of each run
    url_IDs,          \* the URLIDs object of each run
    url_dict,         \* url_dict of each run, in insertion order
    details_dict,     \* details_dict of each run, in insertion order
    i,                \* index of the URL the loop of line 250 is at
    todays_entrys,    \* todays_entrys of each run (rows, and the date)
    price_history,    \* price_history of each run
    item_summaries,   \* item_summaries of each run
    k,                \* index of the person the loop of line 323 is at
    scraped,          \* calls of the scraper made by each run, with their outcome
    sent,             \* e-mails handed to mail.send_email by each run
    tracker_at_start, \* history variable: the tracker table when the run started
    first_seen,       \* history variable: the (url, ID) pairs in order of creation
    ret,              \* value returned by the last direct call of each caller
    last_call         \* the last direct call of each caller

db == <<url_ids, tracker>>
locals == <<json_files, no_email, url_IDs, url_dict, details_dict, i,
            todays_entrys, price_history, item_summaries, k, scraped, sent,
            tracker_at_start>>
api == <<ret, last_call>>
vars == <<db, today, runs_started, pc, locals, first_seen, api>>

\* ------------------------------------------------------------ URLIDs
EmptyURLIDs == [ID_as_key |-> <<>>, url_as_key |-> <<>>]

\* URLIDs.add_ID: both dictionaries are assigned, an existing key is overwritten.
add_ID(m, ID, url) ==
    [ID_as_key |-> (ID :> url) @@ m.ID_as_key,
     url_as_key |-> (url :> ID) @@ m.url_as_key]

Max(S) == CHOOSE x \in S : \A y \in S : y <= x
Min(S) == CHOOSE x \in S : \A y \in S : x <= y

\* ------------------------------------------------------ table url_ids
\* url_ID INTEGER PRIMARY KEY, url TEXT UNIQUE: a row conflicts with a stored
\* row of the same url_ID or of the same url.
UrlIdsConflict(tbl, row) ==
    \E s \in tbl : s.url_ID = row.url_ID \/ s.url = row.url

\* Variant of InsertUrlIds: INSERT OR REPLACE, the conflicting rows give way.
InsertOrReplaceUrlIds(tbl, row) ==
    [raised |-> FALSE,
     table |-> { s \in tbl : s.url_ID # row.url_ID /\ s.url # row.url } \cup {row}]

\* INSERT INTO url_ids: raises sqlite3.IntegrityError on a conflict.
InsertUrlIds(tbl, row) ==
    IF UrlIdsConflict(tbl, row)
    THEN [raised |-> TRUE, table |-> tbl]
    ELSE [raised |-> FALSE, table |-> tbl \cup {row}]

\* INSERT OR IGNORE INTO url_ids: a conflicting row is skipped.
InsertOrIgnoreUrlIds(tbl, row) ==
    IF UrlIdsConflict(tbl, row) THEN tbl ELSE tbl \cup {row}

\* get_url_IDs: SELECT url_ID, url FROM url_ids, then add_ID for every row.
RECURSIVE LoadRows(_, _)
LoadRows(m, rows) ==
    IF rows = {} THEN m
    ELSE LET row == CHOOSE s \in rows : \A t \in rows : s.url_ID <= t.url_ID
         IN LoadRows(add_ID(m, row.url_ID, row.url), rows \ {row})

get_url_IDs(tbl) == LoadRows(EmptyURLIDs, tbl)

\* write_url_IDs: INSERT OR IGNORE of every item of ID_as_key, one commit.
RECURSIVE WriteRows(_, _, _)
WriteRows(tbl, m, ids) ==
    IF ids = {} THEN tbl
    ELSE LET ID == Min(ids)
         IN WriteRows(InsertOrIgnoreUrlIds(tbl, [url_ID |-> ID, url |-> m.ID_as_key[ID]]),
                      m, ids \ {ID})

write_url_IDs(tbl, m) == WriteRows(tbl, m, DOMAIN m.ID_as_key)

\* Variant of NewID: the + 1 is missing.
NewIDNoIncrement(m) ==
    IF DOMAIN m.ID_as_key = {} THEN 0 ELSE Max(DOMAIN m.ID_as_key)

\* Variant of NewID: an empty map starts at 1.
NewIDFromOne(m) ==
    IF DOMAIN m.ID_as_key = {} THEN 1 ELSE Max(DOMAIN m.ID_as_key) + 1

\* The ID a new URL is given: max(ID_as_key.keys()) + 1, 0 on ValueError.
NewID(m) ==
    IF DOMAIN m.ID_as_key = {} THEN 0 ELSE Max(DOMAIN m.ID_as_key) + 1

\* Variant of assign_ID_to_new: the new pair is not inserted, it is left to
\* write_url_IDs at the end of the run.
assign_ID_to_new_unsaved(m, tbl, new_url) ==
    IF new_url \notin DOMAIN m.url_as_key
    THEN [url_IDs |-> add_ID(m, NewID(m), new_url), table |-> tbl,
          raised |-> FALSE, created |-> TRUE, ret |-> Some(NewID(m))]
    ELSE [url_IDs |-> m, table |-> tbl, raised |-> FALSE, created |-> FALSE,
          ret |-> None]

\* Variant of assign_ID_to_new: the test "new_url not in url_as_key" is missing.
assign_ID_to_new_always(m, tbl, new_url) ==
    LET ins == InsertUrlIds(tbl, [url_ID |-> NewID(m), url |-> new_url])
    IN [url_IDs |-> add_ID(m, NewID(m), new_url),
        table |-> ins.table,
        raised |-> ins.raised,
        created |-> TRUE,
        ret |-> IF ins.raised THEN None ELSE Some(NewID(m))]

\* assign_ID_to_new: the map after the call, the table after the call, whether
\* the INSERT raised, and the returned value (None when nothing is created).
assign_ID_to_new(m, tbl, new_url) ==
    IF new_url \notin DOMAIN m.url_as_key
    THEN LET new_ID == NewID(m)
             ins == InsertUrlIds(tbl, [url_ID |-> new_ID, url |-> new_url])
         IN [url_IDs |-> add_ID(m, new_ID, new_url),
             table |-> ins.table,
             raised |-> ins.raised,
             created |-> TRUE,
             ret |-> IF ins.raised THEN None ELSE Some(new_ID)]
    ELSE [url_IDs |-> m, table |-> tbl, raised |-> FALSE, created |-> FALSE,
          ret |-> None]

\* ------------------------------------------------------- table tracker
\* strftime("%Y-%m-%d"): the calendar day of a datetime, the time of day dropped.
strftime(dt) == dt.day

\* PRIMARY KEY (url_ID, date)
TrackerConflict(tbl, row) ==
    \E s \in tbl : s.url_ID = row.url_ID /\ s.date = row.date

\* Variant of InsertOrIgnoreTracker: INSERT OR REPLACE.
InsertOrReplaceTracker(tbl, row) ==
    { s \in tbl : ~(s.url_ID = row.url_ID /\ s.date = row.date) } \cup {row}

\* INSERT OR IGNORE INTO tracker: a row whose key is stored is skipped.
InsertOrIgnoreTracker(tbl, row) ==
    IF TrackerConflict(tbl, row) THEN tbl ELSE tbl \cup {row}

\* write_database: one INSERT OR IGNORE per index of todays_entrys, one commit.
RECURSIVE WriteEntries(_, _, _)
WriteEntries(tbl, te, j) ==
    IF j > Len(te.url_ID) THEN tbl
    ELSE WriteEntries(
            InsertOrIgnoreTracker(tbl,
                [url_ID |-> te.url_ID[j],
                 price |-> te.price[j],
                 compare_price |-> te.compare_price[j],
                 date |-> strftime(te.date[j])]),
            te, j + 1)

\* Variant of write_database: the commit is missing, the rows are lost when
\* the connection is closed.
write_database_uncommitted(tbl, te) == tbl

write_database(tbl, te) == WriteEntries(tbl, te, 1)

\* convert_prices: the currency mark is dropped and the number read; None stays None.
convert_price(arg) == IF arg = None THEN None ELSE Some(arg[1].num)

\* ------------------------------------------------------------ history
RECURSIVE SumPrices(_)
SumPrices(rows) ==
    IF rows = {} THEN 0
    ELSE LET row == CHOOSE s \in rows : TRUE
         IN row.price + SumPrices(rows \ {row})

\* max(set(prices), key=prices.count): the first most frequent price in the
\* iteration order of the set, which for the small whole prices used here is
\* the ascending order of their hashes, i.e. of their values.
ModePrice(rows) ==
    LET count(p) == Cardinality({ s \in rows : s.price = p })
        prices == { s.price : s \in rows }
        best == { p \in prices : \A q \in prices : count(q) <= count(p) }
    IN Min(best)

\* The record get_price_history builds from the rows of one url_ID. The mean
\* is kept as the pair (sum, count) of the division sum(prices) / len(prices).
HistoryOf(rows) ==
    LET compare_prices == { s \in rows : s.compare_price # None }
        dates == { s.date : s \in rows }
    IN [mean_price |-> <<SumPrices(rows), Cardinality(rows)>>,
        mode_price |-> ModePrice(rows),
        on_sale_count |-> Cardinality(compare_prices),
        last_sale |-> IF compare_prices # {} THEN Some(Max(dates)) ELSE None,
        num_entries |-> Cardinality(rows)]

Range(s) == { s[j] : j \in DOMAIN s }

\* get_price_history: for every url_ID of todays_entrys, SELECT ... WHERE url_ID = ?
get_price_history(tbl, te) ==
    [url_ID \in Range(te.url_ID) |->
        LET rows == { s \in tbl : s.url_ID = url_ID }
        IN IF rows # {} THEN Some(HistoryOf(rows)) ELSE None]

\* --------------------------------------------------- configuration files
\* The place of a key in url_dict / in details_dict.
UrlIndex(ud, url) == CHOOSE j \in DOMAIN ud : ud[j].url = url
PersonIndex(dd, person) == CHOOSE j \in DOMAIN dd : dd[j].person = person

\* Lines 235-238: a new URL is appended to url_dict, a known one gets the
\* person appended to its list of people.
AddUrl(ud, url, person, site) ==
    IF \E j \in DOMAIN ud : ud[j].url = url
    THEN [ud EXCEPT ![UrlIndex(ud, url)].people = Append(@, person)]
    ELSE Append(ud, [url |-> url, people |-> <<person>>, site |-> site])

RECURSIVE AddUrls(_, _, _, _)
AddUrls(ud, urls, person, site) ==
    IF urls = <<>> THEN ud
    ELSE AddUrls(AddUrl(ud, Head(urls), person, site), Tail(urls), person, site)

\* Line 240: details_dict[person] = contact, personal_urls. Assigning to a key
\* that is present replaces its value and keeps its place in the dictionary.
SetDetails(dd, person, contact, urls) ==
    LET entry == [person |-> person, contact |-> contact, urls |-> urls]
    IN IF \E j \in DOMAIN dd : dd[j].person = person
       THEN [dd EXCEPT ![PersonIndex(dd, person)] = entry]
       ELSE Append(dd, entry)

\* Lines 225-240: the loop over json_files.
RECURSIVE ReadFiles(_, _, _)
ReadFiles(files, ud, dd) ==
    IF files = <<>> THEN [url_dict |-> ud, details_dict |-> dd]
    ELSE LET data == Head(files)
         IN ReadFiles(Tail(files),
                      AddUrls(ud, data.urls, data.person, data.site),
                      SetDetails(dd, data.person, data.contact, data.urls))

\* ------------------------------------------------------------ summaries
\* Lines 270-318: the summary of entry j of todays_entrys. The division
\* on_sale_count / num_entries is kept as the pair (numerator, denominator).
SummaryOf(m, te, history, j) ==
    LET url_ID == te.url_ID[j]
    IN [url_ID |-> url_ID,
        url |-> m.ID_as_key[url_ID],
        history_summary |->
            IF history[url_ID] # None
            THEN Some([mean_price |-> history[url_ID][1].mean_price,
                       mode_price |-> history[url_ID][1].mode_price,
                       on_sale_proportion |-> <<history[url_ID][1].on_sale_count,
                                                history[url_ID][1].num_entries>>,
                       on_sale_count |-> history[url_ID][1].on_sale_count,
                       num_entries |-> history[url_ID][1].num_entries,
                       last_sale |-> history[url_ID][1].last_sale])
            ELSE None,
        price |-> te.price[j],
        is_on_sale |-> te.compare_price[j] # None,
        discount_info |-> te.compare_price[j]]

\* item_summaries[url_ID] = summary, a later entry of the same url_ID wins.
Summaries(m, te, history) ==
    [url_ID \in Range(te.url_ID) |->
        SummaryOf(m, te, history,
                  Max({ j \in DOMAIN te.url_ID : te.url_ID[j] = url_ID }))]

\* The division of line 275 raises ZeroDivisionError on an empty history record.
DivisionRaises(te, history) ==
    \E url_ID \in Range(te.url_ID) :
        history[url_ID] # None /\ history[url_ID][1].num_entries = 0

\* Lines 324-327: the digest of one person.
RECURSIVE Contents(_, _, _)
Contents(m, summaries, urls) ==
    IF urls = <<>> THEN <<>>
    ELSE <<summaries[m.url_as_key[Head(urls)]]>> \o Contents(m, summaries, Tail(urls))

\* ------------------------------------------------------------ the state
EmptyEntrys == [url_ID |-> <<>>, price |-> <<>>, compare_price |-> <<>>, date |-> <<>>]

Aborted == {"aborted_insert", "aborted_scrape", "aborted_summary", "aborted_send"}
Ended == {"idle", "done"} \cup Aborted

\* initialise_database has created both tables, empty, and no run has started.
Init ==
    /\ url_ids = {}
    /\ tracker = {}
    /\ today = 0
    /\ runs_started = 0
    /\ pc = [r \in Runs |-> "idle"]
    /\ json_files = [r \in Runs |-> <<>>]
    /\ no_email = [r \in Runs |-> FALSE]
    /\ url_IDs = [r \in Runs |-> EmptyURLIDs]
    /\ url_dict = [r \in Runs |-> <<>>]
    /\ details_dict = [r \in Runs |-> <<>>]
    /\ i = [r \in Runs |-> 1]
    /\ todays_entrys = [r \in Runs |-> EmptyEntrys]
    /\ price_history = [r \in Runs |-> <<>>]
    /\ item_summaries = [r \in Runs |-> <<>>]
    /\ k = [r \in Runs |-> 1]
    /\ scraped = [r \in Runs |-> <<>>]
    /\ sent = [r \in Runs |-> <<>>]
    /\ tracker_at_start = [r \in Runs |-> {}]
    /\ first_seen = <<>>
    /\ ret = [r \in Runs |-> [raised |-> FALSE, value |-> None]]
    /\ last_call = [r \in Runs |-> [op |-> "none", url |-> "", known |-> FALSE]]

\* The head of the loop of line 250: the next URL, or the code after the loop.
LoopHead(idx, ud) == IF idx <= Len(ud) THEN "assign" ELSE "write_ids"

\* Lines 218-249: a run starts with its arguments; the tables exist, the map
\* is loaded and the configuration files are read.
Start(r) ==
    /\ pc[r] \in Ended
    /\ runs_started < MaxRuns
    /\ \E files \in FileLists :
         LET read == ReadFiles(files, <<>>, <<>>)
         IN /\ json_files' = [json_files EXCEPT ![r] = files]
            /\ url_dict' = [url_dict EXCEPT ![r] = read.url_dict]
            /\ details_dict' = [details_dict EXCEPT ![r] = read.details_dict]
            /\ pc' = [pc EXCEPT ![r] = LoopHead(1, read.url_dict)]
    /\ runs_started' = runs_started + 1
    /\ no_email' = [no_email EXCEPT ![r] = FALSE]
    /\ url_IDs' = [url_IDs EXCEPT ![r] = get_url_IDs(url_ids)]
    /\ i' = [i EXCEPT ![r] = 1]
    /\ todays_entrys' = [todays_entrys EXCEPT ![r] = EmptyEntrys]
    /\ price_history' = [price_history EXCEPT ![r] = <<>>]
    /\ item_summaries' = [item_summaries EXCEPT ![r] = <<>>]
    /\ k' = [k EXCEPT ![r] = 1]
    /\ scraped' = [scraped EXCEPT ![r] = <<>>]
    /\ sent' = [sent EXCEPT ![r] = <<>>]
    /\ tracker_at_start' = [tracker_at_start EXCEPT ![r] = tracker]
    /\ UNCHANGED <<db, today, first_seen, api>>

\* Lines 251-252: a URL that is not in the map is given an ID, in memory and
\* by an INSERT that is committed at once; an IntegrityError ends the run.
Assign(r) ==
    /\ pc[r] = "assign"
    /\ LET url == url_dict[r][i[r]].url
           res == assign_ID_to_new(url_IDs[r], url_ids, url)
       IN IF url \notin DOMAIN url_IDs[r].url_as_key
          THEN /\ url_IDs' = [url_IDs EXCEPT ![r] = res.url_IDs]
               /\ url_ids' = res.table
               /\ first_seen' = IF res.created
                                THEN Append(first_seen, <<url, res.url_IDs.url_as_key[url]>>)
                                ELSE first_seen
               /\ pc' = [pc EXCEPT ![r] = IF res.raised THEN "aborted_insert" ELSE "scrape"]
          ELSE /\ pc' = [pc EXCEPT ![r] = "scrape"]
               /\ UNCHANGED <<url_IDs, url_ids, first_seen>>
    /\ UNCHANGED <<tracker, today, runs_started, json_files, no_email, url_dict,
                   details_dict, i, todays_entrys, price_history, item_summaries,
                   k, scraped, sent, tracker_at_start, api>>

\* Variant of OnScrapeError: the exception is caught and the URL skipped.
OnScrapeErrorSkip(idx, ud) ==
    [pc |-> IF idx + 1 <= Len(ud) THEN "assign" ELSE "write_ids", i |-> idx + 1]

\* What an exception of the scraper does to the run at URL number idx: it is
\* not caught, the run ends there.
OnScrapeError(idx, ud) == [pc |-> "aborted_scrape", i |-> idx]

\* Lines 253-259: the URL is scraped, the prices converted and appended.
ScrapeWith(r, outcomes) ==
    /\ pc[r] = "scrape"
    /\ \E out \in outcomes :
         LET url == url_dict[r][i[r]].url
             url_ID == url_IDs[r].url_as_key[url]
             te == todays_entrys[r]
         IN /\ scraped' = [scraped EXCEPT ![r] = Append(@, [url |-> url, raised |-> out.raised])]
            /\ IF out.raised
               THEN /\ pc' = [pc EXCEPT ![r] = OnScrapeError(i[r], url_dict[r]).pc]
                    /\ i' = [i EXCEPT ![r] = OnScrapeError(i[r], url_dict[r]).i]
                    /\ UNCHANGED todays_entrys
               ELSE /\ todays_entrys' = [todays_entrys EXCEPT ![r] =
                          [te EXCEPT !.url_ID = Append(@, url_ID),
                                     !.price = Append(@, convert_price(out.price)[1]),
                                     !.compare_price = Append(@, convert_price(out.compare_price))]]
                    /\ i' = [i EXCEPT ![r] = @ + 1]
                    /\ pc' = [pc EXCEPT ![r] = LoopHead(i[r] + 1, url_dict[r])]
    /\ UNCHANGED <<db, today, runs_started, json_files, no_email, url_IDs, url_dict,
                   details_dict, price_history, item_summaries, k, sent,
                   tracker_at_start, first_seen, api>>

\* The days datetime.today() can show. Days are numbered in the order in which
\* the readings of the clock fall on them: the first reading falls on day 1, a
\* later one on the day of the reading before it or on a new day. Dates are
\* only compared, so the gaps between the days play no part.
ClockDays(last) == IF last = 0 THEN {1} ELSE {last, last + 1}

\* Lines 260-264: every entry is dated datetime.today(), then write_url_IDs.
WriteUrlIDs(r) ==
    /\ pc[r] = "write_ids"
    /\ \E day \in ClockDays(today) :
         /\ today' = day
         /\ todays_entrys' = [todays_entrys EXCEPT ![r].date =
                [j \in DOMAIN todays_entrys[r].url_ID |-> datetime(day)]]
    /\ url_ids' = write_url_IDs(url_ids, url_IDs[r])
    /\ pc' = [pc EXCEPT ![r] = "write_db"]
    /\ UNCHANGED <<tracker, runs_started, json_files, no_email, url_IDs,
                   url_dict, details_dict, i, price_history, item_summaries, k,
                   scraped, sent, tracker_at_start, first_seen, api>>

\* Line 265: write_database.
WriteDatabase(r) ==
    /\ pc[r] = "write_db"
    /\ tracker' = write_database(tracker, todays_entrys[r])
    /\ pc' = [pc EXCEPT ![r] = "history"]
    /\ UNCHANGED <<url_ids, today, runs_started, locals, first_seen, api>>

\* Lines 268-321: get_price_history, the summaries, then the return of a run
\* without e-mail. The argument no_email is read here and nowhere else: its
\* value is drawn here.
GetPriceHistory(r) ==
    /\ pc[r] = "history"
    /\ LET history == get_price_history(tracker, todays_entrys[r])
       IN /\ price_history' = [price_history EXCEPT ![r] = history]
          /\ IF DivisionRaises(todays_entrys[r], history)
             THEN /\ pc' = [pc EXCEPT ![r] = "aborted_summary"]
                  /\ UNCHANGED <<item_summaries, no_email>>
             ELSE /\ item_summaries' = [item_summaries EXCEPT ![r] =
                         Summaries(url_IDs[r], todays_entrys[r], history)]
                  /\ \E ne \in BOOLEAN :
                       /\ no_email' = [no_email EXCEPT ![r] = ne]
                       /\ pc' = [pc EXCEPT ![r] =
                              IF ne \/ details_dict[r] = <<>> THEN "done" ELSE "email"]
    /\ UNCHANGED <<db, today, runs_started, json_files, url_IDs, url_dict,
                   details_dict, i, todays_entrys, k, scraped, sent,
                   tracker_at_start, first_seen, api>>

\* Lines 323-328: the digest of the next person of details_dict is composed
\* and sent; an exception of mail.send_email is not caught.
SendEmail(r) ==
    /\ pc[r] = "email"
    /\ LET d == details_dict[r][k[r]]
           email == [person |-> d.person, contact |-> d.contact,
                     contents |-> Contents(url_IDs[r], item_summaries[r], d.urls)]
       IN \E delivered \in BOOLEAN :
            IF delivered
            THEN /\ sent' = [sent EXCEPT ![r] = Append(@, email)]
                 /\ k' = [k EXCEPT ![r] = @ + 1]
                 /\ pc' = [pc EXCEPT ![r] =
                        IF k[r] + 1 <= Len(details_dict[r]) THEN "email" ELSE "done"]
            ELSE /\ pc' = [pc EXCEPT ![r] = "aborted_send"]
                 /\ UNCHANGED <<sent, k>>
    /\ UNCHANGED <<db, today, runs_started, json_files, no_email, url_IDs, url_dict,
                   details_dict, i, todays_entrys, price_history, item_summaries,
                   scraped, tracker_at_start, first_seen, api>>

Scrape(r) == ScrapeWith(r, ScrapeOutcomes)

Step(r) ==
    \/ Start(r)
    \/ Assign(r)
    \/ Scrape(r)
    \/ WriteUrlIDs(r)
    \/ WriteDatabase(r)
    \/ GetPriceHistory(r)
    \/ SendEmail(r)

\* One scheduled invocation at a time: process "p" runs main() again and again.
Next == Step("p")

Spec == Init /\ [][Next]_vars

\* Two invocations that overlap on the same database, each followed up to the
\* return of write_url_IDs, the last place where main() touches the table
\* url_ids or changes the URLIDs object. Prices play no part in what happens
\* to url_ids: here a page fails or shows an item that is not on sale.
OverlapOutcomes == { out \in ScrapeOutcomes : out.compare_price = None }

ScrapeOverlap(r) == ScrapeWith(r, OverlapOutcomes)

NextOverlap ==
    \E r \in Runs : Start(r) \/ Assign(r) \/ ScrapeOverlap(r) \/ WriteUrlIDs(r)

SpecOverlap == Init /\ [][NextOverlap]_vars

\* ------------------------------------------------ direct calls of the map
\* Callers that use the identity map directly, each with its own URLIDs
\* object: get_url_IDs, assign_ID_to_new with any URL, write_url_IDs, in any
\* order. A caller goes on after an IntegrityError.
CallGet(r) ==
    /\ url_IDs' = [url_IDs EXCEPT ![r] = get_url_IDs(url_ids)]
    /\ ret' = [ret EXCEPT ![r] = [raised |-> FALSE, value |-> None]]
    /\ last_call' = [last_call EXCEPT ![r] =
                        [op |-> "get_url_IDs", url |-> "", known |-> FALSE]]
    /\ UNCHANGED <<db, today, runs_started, pc, json_files, no_email, url_dict,
                   details_dict, i, todays_entrys, price_history, item_summaries,
                   k, scraped, sent, tracker_at_start, first_seen>>

CallAssign(r, new_url) ==
    /\ LET res == assign_ID_to_new(url_IDs[r], url_ids, new_url)
       IN /\ url_IDs' = [url_IDs EXCEPT ![r] = res.url_IDs]
          /\ url_ids' = res.table
          /\ ret' = [ret EXCEPT ![r] = [raised |-> res.raised, value |-> res.ret]]
    /\ last_call' = [last_call EXCEPT ![r] =
                        [op |-> "assign_ID_to_new", url |-> new_url,
                         known |-> new_url \in DOMAIN url_IDs[r].url_as_key]]
    /\ UNCHANGED <<tracker, today, runs_started, pc, json_files, no_email, url_dict,
                   details_dict, i, todays_entrys, price_history, item_summaries,
                   k, scraped, sent, tracker_at_start, first_seen>>

CallWrite(r) ==
    /\ url_ids' = write_url_IDs(url_ids, url_IDs[r])
    /\ ret' = [ret EXCEPT ![r] = [raised |-> FALSE, value |-> None]]
    /\ last_call' = [last_call EXCEPT ![r] =
                        [op |-> "write_url_IDs", url |-> "", known |-> FALSE]]
    /\ UNCHANGED <<tracker, today, runs_started, pc, locals, first_seen>>

NextCalls ==
    \E r \in Runs :
        \/ CallGet(r)
        \/ \E new_url \in URLs : CallAssign(r, new_url)
        \/ CallWrite(r)

SpecCalls == Init /\ [][NextCalls]_vars

\* =============================================================== claims

\* Both dictionaries of a URLIDs object are inverses of each other.
Inverses(m) ==
    /\ \A ID \in DOMAIN m.ID_as_key :
          /\ m.ID_as_key[ID] \in DOMAIN m.url_as_key
          /\ m.url_as_key[m.ID_as_key[ID]] = ID
    /\ \A url \in DOMAIN m.url_as_key :
          /\ m.url_as_key[url] \in DOMAIN m.ID_as_key
          /\ m.ID_as_key[m.url_as_key[url]] = url

\* No ID with two URLs and no URL with two IDs in a table.
OneToOne(tbl) ==
    \A s, t \in tbl : (s.url_ID = t.url_ID \/ s.url = t.url) => s = t

Row(ID, url) == [url_ID |-> ID, url |-> url]

\* C1: in runs that follow one another, the identity map is a bijection at
\* every moment: the url_ids table holds no two URLs under one ID and no URL
\* under two IDs, and ID_as_key and url_as_key of the URLIDs object are exact
\* inverses of each other.
C1_Bijection ==
    /\ OneToOne(url_ids)
    /\ \A r \in Runs : Inverses(url_IDs[r])

\* A second run has ended with all three URLs in the table and in its map.
C1_Witness ==
    /\ runs_started = 2
    /\ pc["p"] = "done"
    /\ Cardinality(url_ids) = 3
    /\ DOMAIN url_IDs["p"].url_as_key = URLs

\* The state part of C2: a URL is given an ID once, the pair is in the table
\* from then on (also when the run aborts later), and every run uses the
\* stored ID, in its map and in todays_entrys.
C2_Stable ==
    /\ \A a, b \in DOMAIN first_seen : first_seen[a][1] = first_seen[b][1] => a = b
    /\ \A a \in DOMAIN first_seen : Row(first_seen[a][2], first_seen[a][1]) \in url_ids
    /\ \A r \in Runs :
          /\ \A url \in DOMAIN url_IDs[r].url_as_key :
                Row(url_IDs[r].url_as_key[url], url) \in url_ids
          /\ \A j \in DOMAIN todays_entrys[r].url_ID :
                Row(todays_entrys[r].url_ID[j], url_dict[r][j].url) \in url_ids

\* C2: identity stability. Once a URL has been given an ID, every later run
\* uses that ID for it, also when the run that assigned it aborted afterwards,
\* and a stored (ID, URL) pair is never removed or rebound.
C2_IdentityStability ==
    [](C2_Stable) /\ [][url_ids \subseteq url_ids']_vars

\* The first run gave B and A their IDs and aborted before anything was
\* written to tracker; the second run lists B alone and has used B's ID.
C2_Witness ==
    /\ runs_started = 2
    /\ pc["p"] = "done"
    /\ tracker_at_start["p"] = {}
    /\ first_seen = << <<"B", 0>>, <<"A", 1>> >>
    /\ Len(url_dict["p"]) = 1
    /\ url_dict["p"][1].url = "B"
    /\ todays_entrys["p"].url_ID = <<0>>

\* C3: starting from an empty store, the k-th URL that is first seen gets the
\* ID k - 1 (max of the IDs + 1, 0 for the first), and the IDs of the table
\* are exactly 0 .. n-1.
C3_SequentialIDs ==
    /\ \A a \in DOMAIN first_seen :
          /\ first_seen[a][2] = a - 1
          /\ Row(a - 1, first_seen[a][1]) \in url_ids
    /\ Cardinality(url_ids) = Len(first_seen)
    /\ { s.url_ID : s \in url_ids } = 0 .. (Cardinality(url_ids) - 1)
    /\ \A r \in Runs :
          DOMAIN url_IDs[r].ID_as_key = 0 .. (Cardinality(DOMAIN url_IDs[r].ID_as_key) - 1)

\* Three URLs have been given the IDs 0, 1, 2 over two runs.
C3_Witness ==
    /\ runs_started = 2
    /\ Len(first_seen) = 3
    /\ \E a \in DOMAIN first_seen :
          /\ first_seen[a] = <<"C", 2>>
          /\ url_IDs["p"].ID_as_key[2] = "C"

\* C4 (as amended): assign_ID_to_new called with a URL that is in the map is
\* a no-op that returns None: the map and the url_ids table are unchanged.
C4_KnownUrlNoOpReturnsNone ==
    [][\A r \in Runs, url \in URLs :
         (CallAssign(r, url) /\ url \in DOMAIN url_IDs[r].url_as_key)
         => /\ url_IDs' = url_IDs
            /\ url_ids' = url_ids
            /\ ret'[r] = [raised |-> FALSE, value |-> None]]_vars

\* C4 (as stated): assign_ID_to_new called with a URL that is in the map is a
\* no-op that returns the ID the URL has.
C4_KnownUrlReturnsItsID ==
    [][\A r \in Runs, url \in URLs :
         (CallAssign(r, url) /\ url \in DOMAIN url_IDs[r].url_as_key)
         => /\ url_IDs' = url_IDs
            /\ url_ids' = url_ids
            /\ ret'[r] = [raised |-> FALSE, value |-> Some(url_IDs[r].url_as_key[url])]]_vars

\* assign_ID_to_new has just been called with a URL of a map of two URLs.
C4_Witness ==
    \E r \in Runs :
        /\ last_call[r].op = "assign_ID_to_new"
        /\ last_call[r].known
        /\ last_call[r].url \in DOMAIN url_IDs[r].url_as_key
        /\ Cardinality(DOMAIN url_IDs[r].url_as_key) = 2

\* The tracker table holds at most one row per (url_ID, date).
C5_OneRowPerKey ==
    \A s, t \in tracker : (s.url_ID = t.url_ID /\ s.date = t.date) => s = t

\* C5: idempotent append. The tracker table holds at most one row per
\* (url_ID, date), and no stored row is ever changed or deleted: an observation
\* whose key is stored is skipped and the row written first stays as it is.
C5_IdempotentAppend ==
    [](C5_OneRowPerKey) /\ [][tracker \subseteq tracker']_vars

\* write_database has just skipped an observation whose key was stored with
\* another price.
C5_Witness ==
    /\ pc["p"] = "history"
    /\ \E j \in DOMAIN todays_entrys["p"].url_ID :
          \E s \in tracker_at_start["p"] :
             /\ s \in tracker
             /\ s.url_ID = todays_entrys["p"].url_ID[j]
             /\ s.date = strftime(todays_entrys["p"].date[j])
             /\ s.price # todays_entrys["p"].price[j]

\* C6 (as stated): last_sale of an item is the latest date among its
\* observations with a compare_price, and None when there is none.
C6_LastSaleIsLastDiscount ==
    \A r \in Runs : \A url_ID \in DOMAIN price_history[r] :
        price_history[r][url_ID] # None =>
            LET sales == { s \in tracker : s.url_ID = url_ID /\ s.compare_price # None }
            IN price_history[r][url_ID][1].last_sale =
                  IF sales = {} THEN None ELSE Some(Max({ s.date : s \in sales }))

AfterHistory == {"email", "done", "aborted_send", "aborted_summary"}

\* C7: the history of a run is computed after its observations are written:
\* every processed item has a row dated today and a history that is not None
\* with num_entries >= 1, and on_sale_count / num_entries never divides by
\* zero and lies in [0, 1].
C7_HistoryIncludesToday ==
    \A r \in Runs :
        /\ pc[r] # "aborted_summary"
        /\ pc[r] \in AfterHistory =>
              \A j \in DOMAIN todays_entrys[r].url_ID :
                 LET url_ID == todays_entrys[r].url_ID[j]
                 IN /\ \E s \in tracker :
                          /\ s.url_ID = url_ID
                          /\ s.date = strftime(todays_entrys[r].date[j])
                    /\ url_ID \in DOMAIN price_history[r]
                    /\ price_history[r][url_ID] # None
                    /\ price_history[r][url_ID][1].num_entries >= 1
                    /\ price_history[r][url_ID][1].on_sale_count >= 0
                    /\ price_history[r][url_ID][1].on_sale_count
                          <= price_history[r][url_ID][1].num_entries
                    /\ item_summaries[r][url_ID].history_summary # None
                    /\ item_summaries[r][url_ID].history_summary[1].on_sale_proportion[2] > 0

\* A run has ended with an item that had no row before: its history holds
\* the one row of today.
C7_Witness ==
    /\ pc["p"] = "done"
    /\ \E j \in DOMAIN todays_entrys["p"].url_ID :
          LET url_ID == todays_entrys["p"].url_ID[j]
          IN /\ \A s \in tracker_at_start["p"] : s.url_ID # url_ID
             /\ price_history["p"][url_ID][1].num_entries = 1

\* C8: when the scraper raises for a URL, the run ends at that URL: no later
\* URL is scraped, no e-mail is sent and the tracker table is the table the
\* run started with.
C8_ScrapeFailureAborts ==
    \A r \in Runs : \A j \in DOMAIN scraped[r] :
        scraped[r][j].raised =>
            /\ j = Len(scraped[r])
            /\ pc[r] = "aborted_scrape"
            /\ sent[r] = <<>>
            /\ tracker = tracker_at_start[r]

\* A run over a table with rows has scraped one item and failed at the second.
C8_Witness ==
    /\ pc["p"] = "aborted_scrape"
    /\ Len(scraped["p"]) = 2
    /\ Len(todays_entrys["p"].url_ID) = 1
    /\ tracker_at_start["p"] # {}

\* C9 (as stated): in a run that completes with e-mail, every configuration
\* file of the run gets exactly one e-mail, sent to its contact, with the
\* summaries of its URLs in its listing order, and no other e-mail is sent.
C9_OneDigestPerFile ==
    \A r \in Runs :
        (pc[r] = "done" /\ ~no_email[r]) =>
            /\ Len(sent[r]) = Len(json_files[r])
            /\ \A f \in DOMAIN json_files[r] :
                  \E e \in DOMAIN sent[r] :
                     /\ sent[r][e].contact = json_files[r][f].contact
                     /\ \A x \in DOMAIN sent[r] :
                           sent[r][x].contact = json_files[r][f].contact => x = e
                     /\ Len(sent[r][e].contents) = Len(json_files[r][f].urls)
                     /\ \A x \in DOMAIN sent[r][e].contents :
                           sent[r][e].contents[x].url = json_files[r][f].urls[x]

\* The state part of C10: the table is one-to-one; a run that is past an
\* INSERT has its pairs in the table, and a run whose new pair collided with a
\* stored row has stopped at that INSERT with the row left as it was.
C10_Collisions ==
    /\ OneToOne(url_ids)
    /\ \A r \in Runs :
          IF pc[r] = "aborted_insert"
          THEN LET url == url_dict[r][i[r]].url
                   new == Row(url_IDs[r].url_as_key[url], url)
               IN /\ UrlIdsConflict(url_ids, new)
                  /\ \A other \in DOMAIN url_IDs[r].url_as_key \ {url} :
                        Row(url_IDs[r].url_as_key[other], other) \in url_ids
          ELSE \A url \in DOMAIN url_IDs[r].url_as_key :
                  Row(url_IDs[r].url_as_key[url], url) \in url_ids

\* C10: when two runs overlap on one database, url_ids never holds two URLs
\* under one ID nor one URL under two IDs: a run whose new ID or URL collides
\* with a stored row fails at its INSERT and aborts, and no stored row is ever
\* replaced, by assign_ID_to_new or by write_url_IDs.
C10_OverlapKeepsTable ==
    [](C10_Collisions) /\ [][url_ids \subseteq url_ids']_vars

\* Run q has failed at its INSERT while run p, which inserted the row it
\* collided with, is still under way.
C10_Witness ==
    /\ pc["q"] = "aborted_insert"
    /\ pc["p"] \in {"assign", "scrape", "write_ids"}
    /\ url_IDs["p"].ID_as_key # <<>>
    /\ \E ID \in DOMAIN url_IDs["p"].ID_as_key :
          /\ ID \in DOMAIN url_IDs["q"].ID_as_key
          /\ url_IDs["p"].ID_as_key[ID] # url_IDs["q"].ID_as_key[ID]
          /\ Row(ID, url_IDs["p"].ID_as_key[ID]) \in url_ids

====
